---- MODULE Spec2Model ----
(***************************************************************************)
(* A model of the Artillery results viewer: the upload session of the home *)
(* page (one held ResultLog, asynchronous file reads) and the metrics      *)
(* derivation done by KeyMetricsSummary, ChartsSection and                 *)
(* AdditionalPanels on the held log.                                       *)
(*                                                                         *)
(* JavaScript numbers that come out of a division are kept as exact        *)
(* rationals [n, d] with d > 0; metric keys are strings and every prefix   *)
(* test is the character-level startsWith of the source.                   *)
(***************************************************************************)
EXTENDS Integers, Sequences, FiniteSets, TLC

VARIABLES
    data,      \* Home: the useState value, JsNull or the parsed object
    pending,   \* Home.onDrop: the texts of the FileReader reads in flight, in drop order
    console,   \* number of console.error reports made by reader.onload
    view,      \* what Home renders: "upload", "dashboard" or "crashed"
    dropped,   \* number of files dropped so far in the session
    lastDropped, \* acceptedFiles[0] of the latest onDrop call, NoFile before the first
    renders,   \* what each re-render after a setData showed, oldest first
    card,      \* KeyMetricsSummary: the values computed for the summary cards
    charts,    \* ChartsSection: isBrowserData and the rows of allTimeSeriesData built so far
    panels     \* AdditionalPanels: the values computed for the panels

vars ==
    <<data, pending, console, view, dropped, lastDropped, renders, card, charts, panels>>

(***************************************************************************)
(* Bounds of the model.                                                    *)
(***************************************************************************)
MaxDrops == 3

MaxIntervals == 2

MaxP95 == 460

(***************************************************************************)
(* JavaScript values.                                                      *)
(***************************************************************************)
JsNull == [type |-> "null"]

NoFile == <<"no file">>

NoCard == [type |-> "none"]

NoCharts == [type |-> "none"]

NoPanels == [type |-> "none"]

Truthy(v) == v.type # "null"

RemoveAt(s, i) == SubSeq(s, 1, i - 1) \o SubSeq(s, i + 1, Len(s))

(***************************************************************************)
(* The uploaded files.  A text is a sequence of tokens; JSON.parse accepts *)
(* the literal null and an object "{" member* "}" and throws a SyntaxError *)
(* on everything else.  A member token names a top-level field.            *)
(***************************************************************************)
MemberTokens == {"testId:A", "testId:B", "aggregate", "intermediate"}

TextTruncated == <<"{", "testId:A", "aggregate">>
TextEmpty == <<>>
TextNull == <<"null">>
TextEmptyObject == <<"{", "}">>
TextNoIntermediate == <<"{", "testId:A", "aggregate", "}">>
TextNoAggregate == <<"{", "testId:B", "intermediate", "}">>
TextLogA == <<"{", "testId:A", "aggregate", "intermediate", "}">>
TextLogB == <<"{", "testId:B", "aggregate", "intermediate", "}">>
\* the text of the file a log of the derivation layer was read from
TextLogT == <<"{", "testId:T", "aggregate", "intermediate", "}">>

Files ==
    {TextTruncated, TextEmpty, TextNull, TextEmptyObject, TextNoIntermediate,
     TextNoAggregate, TextLogA, TextLogB}

Members(text) == {text[i] : i \in 2..(Len(text) - 1)}

JsonParse(text) ==
    IF text = TextNull
    THEN [ok |-> TRUE, value |-> JsNull]
    ELSE IF /\ Len(text) >= 2
            /\ text[1] = "{"
            /\ text[Len(text)] = "}"
            /\ Members(text) \subseteq MemberTokens
    THEN [ok |-> TRUE,
          value |-> [type |-> "object",
                     testId |-> IF "testId:A" \in Members(text) THEN "A"
                                ELSE IF "testId:B" \in Members(text) THEN "B"
                                ELSE "undefined",
                     has |-> Members(text) \cap {"aggregate", "intermediate"}]]
    ELSE [ok |-> FALSE, value |-> JsNull]

(***************************************************************************)
(* Home's render.  With a falsy data the upload area (the only element     *)
(* carrying the dropzone's root props) is returned; otherwise Dashboard,   *)
(* whose KeyMetricsSummary reads data.aggregate.counters and whose         *)
(* ChartsSection reads data.intermediate.some: on an object without them   *)
(* the render throws and, there being no error boundary, React unmounts    *)
(* the page.                                                               *)
(***************************************************************************)
DashboardRenders(d) == {"aggregate", "intermediate"} \subseteq d.has

HomeRenderWithoutGuard(d) ==
    IF Truthy(d) /\ DashboardRenders(d) THEN "dashboard" ELSE "crashed"

HomeRender(d) ==
    IF ~Truthy(d) THEN "upload"
    ELSE IF DashboardRenders(d) THEN "dashboard"
    ELSE "crashed"

DropzoneMounted == view = "upload"

Shown(d) ==
    [view |-> HomeRender(d), testId |-> IF Truthy(d) THEN d.testId ELSE "none"]

(***************************************************************************)
(* onDrop: a FileReader is created for acceptedFiles[0] and readAsText is  *)
(* started; nothing else changes until the read completes.                 *)
(***************************************************************************)
OnDrop(file) ==
    /\ DropzoneMounted
    /\ dropped < MaxDrops
    /\ pending' = Append(pending, file)
    /\ dropped' = dropped + 1
    /\ lastDropped' = file
    /\ UNCHANGED <<data, console, view, renders, card, charts, panels>>

(***************************************************************************)
(* reader.onload of the i-th read in flight: JSON.parse, then setData and  *)
(* the re-render of Home, or console.error when JSON.parse throws.  Once   *)
(* a render has thrown Home is unmounted and setData no longer has any     *)
(* effect; the handler itself still runs.                                  *)
(***************************************************************************)
HomeMounted == view # "crashed"

ReaderOnLoadAlwaysSets(i) ==
    LET r == JsonParse(pending[i]) IN
    /\ pending' = RemoveAt(pending, i)
    /\ IF HomeMounted
       THEN /\ data' = r.value
            /\ view' = HomeRender(r.value)
            /\ renders' = Append(renders, Shown(r.value))
       ELSE UNCHANGED <<data, view, renders>>
    /\ console' = IF r.ok THEN console ELSE console + 1
    /\ UNCHANGED <<dropped, lastDropped, card, charts, panels>>

ReaderOnLoadKeepsFirst(i) ==
    LET r == JsonParse(pending[i]) IN
    /\ pending' = RemoveAt(pending, i)
    /\ IF r.ok /\ ~Truthy(data) /\ HomeMounted
       THEN /\ data' = r.value
            /\ view' = HomeRender(r.value)
            /\ renders' = Append(renders, Shown(r.value))
            /\ console' = console
       ELSE /\ console' = IF r.ok THEN console ELSE console + 1
            /\ UNCHANGED <<data, view, renders>>
    /\ UNCHANGED <<dropped, lastDropped, card, charts, panels>>

ReaderOnLoad(i) ==
    LET r == JsonParse(pending[i]) IN
    /\ pending' = RemoveAt(pending, i)
    /\ IF r.ok
       THEN /\ IF HomeMounted
               THEN /\ data' = r.value
                    /\ view' = HomeRender(r.value)
                    /\ renders' = IF Truthy(r.value) \/ Truthy(data)
                                  THEN Append(renders, Shown(r.value))
                                  ELSE renders
               ELSE UNCHANGED <<data, view, renders>>
            /\ console' = console
       ELSE /\ console' = console + 1
            /\ UNCHANGED <<data, view, renders>>
    /\ UNCHANGED <<dropped, lastDropped, card, charts, panels>>

Init ==
    /\ data = JsNull
    /\ pending = <<>>
    /\ console = 0
    /\ view = HomeRender(JsNull)
    /\ dropped = 0
    /\ lastDropped = NoFile
    /\ renders = <<>>
    /\ card = NoCard
    /\ charts = NoCharts
    /\ panels = NoPanels

Drop == \E file \in Files : OnDrop(file)

Load == \E i \in 1..Len(pending) : ReaderOnLoad(i)

Next == Drop \/ Load

Spec == Init /\ [][Next]_vars

(***************************************************************************)
(* Claims about the upload session.                                        *)
(***************************************************************************)
IsResultLog(v) == v.type = "object" /\ {"aggregate", "intermediate"} \subseteq v.has

ReadCompleted(i) == pending' = RemoveAt(pending, i) /\ dropped' = dropped

\* C4: when the read of a text that is valid JSON but no ResultLog (no
\* aggregate or no intermediate) completes, the held value and the rendered
\* view stay as they were: nothing is rendered from the mismatching object.
C4_ShapeMismatchIsParseFailure ==
    [][\A i \in 1..Len(pending) :
          (/\ ReadCompleted(i)
           /\ JsonParse(pending[i]).ok
           /\ ~IsResultLog(JsonParse(pending[i]).value))
          => (data' = data /\ view' = view)]_vars

ParsedValues == {JsonParse(file).value : file \in {f \in Files : JsonParse(f).ok}}

\* C25: Dashboard is evaluated (rendered, or thrown from) only while the held
\* value is one a completed read set from a successful JSON.parse; while the
\* held value is null (no file parsed yet, reads possibly in flight) only the
\* upload area is rendered; and the rendered view changes only in the step
\* of a completed read whose text parsed, which sets the held value to the
\* parsed one.
C25_DashboardOnlyAfterParse ==
    /\ [](view # "upload"
           => (Truthy(data) /\ data \in ParsedValues /\ dropped > Len(pending)))
    /\ [](~Truthy(data) => view = "upload")
    /\ [][view' # view
           => \E i \in 1..Len(pending) :
                 /\ ReadCompleted(i)
                 /\ JsonParse(pending[i]).ok
                 /\ data' = JsonParse(pending[i]).value]_vars

\* the dashboard of log B shown while the read of another file is in flight
C25_Witness ==
    /\ view = "dashboard"
    /\ data = JsonParse(TextLogB).value
    /\ Len(pending) = 1
    /\ dropped = 2
    /\ console = 0
    /\ renders = <<[view |-> "dashboard", testId |-> "B"]>>

\* two files were dropped, both reads have completed and each loaded a
\* ResultLog; the second was then dropped while the first was still being
\* read, the drop zone being unmounted once a log is held
BothLoaded ==
    /\ dropped = 2
    /\ pending = <<>>
    /\ Len(renders) = 2
    /\ \A k \in 1..2 : renders[k].view = "dashboard"

\* C28: when two files are dropped before either read completes, then after
\* both reads have completed the held ResultLog is the one parsed from the
\* file dropped last, in whichever order the reads completed.
C28_LastDroppedIsHeld ==
    BothLoaded => data = JsonParse(lastDropped).value

(***************************************************************************)
(* The metrics derivation layer.                                           *)
(*                                                                         *)
(* A counters, rates or summaries object is a sequence of [k, v] members   *)
(* in the object's iteration order, with no key twice.  A number produced  *)
(* by a division is a rational [n, d].                                     *)
(***************************************************************************)
Rat(n, d) == [n |-> n, d |-> d]

RatInt(i) == Rat(i, 1)

RatEq(a, b) == a.n * b.d = b.n * a.d

RatLess(a, b) == a.n * b.d < b.n * a.d

RatMax(a, b) == IF RatLess(a, b) THEN b ELSE a

\* x / y for an integer x and a rational y
DivByRat(x, y) == Rat(x * y.d, y.n)

\* a || b on numbers
OrElse(a, b) == IF a.n # 0 THEN a ELSE b

Max(a, b) == IF a >= b THEN a ELSE b

StartsWith(key, prefix) ==
    Len(key) >= Len(prefix) /\ SubSeq(key, 1, Len(prefix)) = prefix

Has(obj, key) == \E i \in 1..Len(obj) : obj[i].k = key

Get(obj, key) == obj[CHOOSE i \in 1..Len(obj) : obj[i].k = key].v

GetOrOne(obj, key) == IF Has(obj, key) THEN Get(obj, key) ELSE 1

\* obj[key] || 0
GetOrZero(obj, key) == IF Has(obj, key) THEN Get(obj, key) ELSE 0

RECURSIVE SelectKeys(_, _)
\* Object.keys(obj).filter(key => key.startsWith(prefix))
SelectKeys(obj, prefix) ==
    IF obj = <<>> THEN <<>>
    ELSE IF StartsWith(Head(obj).k, prefix)
         THEN <<Head(obj).k>> \o SelectKeys(Tail(obj), prefix)
         ELSE SelectKeys(Tail(obj), prefix)

(***************************************************************************)
(* The Log Classifier, once per component.                                 *)
(***************************************************************************)
HasBrowserKeyWithoutDot(counters) ==
    \E i \in 1..Len(counters) : StartsWith(counters[i].k, "browser")

HasBrowserKey(counters) ==
    \E i \in 1..Len(counters) : StartsWith(counters[i].k, "browser.")

ChartsIsBrowserData(log) ==
    \E i \in 1..Len(log.intermediate) : HasBrowserKey(log.intermediate[i].counters)

KeyMetricsIsBrowserData(log) == HasBrowserKey(log.aggregate.counters)

PanelsIsBrowserData(log) == HasBrowserKey(log.aggregate.counters)

(***************************************************************************)
(* KeyMetricsSummary: the Scoring Engine.                                  *)
(***************************************************************************)
GetApdexRatingExclusiveUpper(isBrowserData, p95) ==
    LET threshold == IF isBrowserData THEN 100 ELSE 150 IN
    IF p95 < threshold THEN "satisfied"
    ELSE IF p95 < threshold * 3 THEN "tolerated"
    ELSE "frustrated"

GetApdexRating(isBrowserData, p95) ==
    LET threshold == IF isBrowserData THEN 100 ELSE 150 IN
    IF p95 < threshold THEN "satisfied"
    ELSE IF p95 <= threshold * 3 THEN "tolerated"
    ELSE "frustrated"

IsPassFailOnP99Alone(isBrowserData, p95, p99) ==
    LET passFailThreshold == IF isBrowserData THEN 200 ELSE 300
    IN  p99 < passFailThreshold

IsPassFailEitherHolds(isBrowserData, p95, p99) ==
    LET passFailThreshold == IF isBrowserData THEN 200 ELSE 300
        apdexThreshold == IF isBrowserData THEN 100 ELSE 150
    IN  p99 < passFailThreshold \/ p95 < apdexThreshold

IsPassFail(isBrowserData, p95, p99) ==
    LET passFailThreshold == IF isBrowserData THEN 200 ELSE 300
        apdexThreshold == IF isBrowserData THEN 100 ELSE 150
    IN  p99 < passFailThreshold /\ p95 < apdexThreshold

ResponseTimeStatsHttpFallback(log, isBrowserData) ==
    LET summaries == log.aggregate.summaries
        ttfbKeys == SelectKeys(summaries, "browser.page.TTFB.")
    IN  IF isBrowserData /\ Len(ttfbKeys) > 0
        THEN <<Get(summaries, ttfbKeys[1])>>
        ELSE IF Has(summaries, "http.response_time")
             THEN <<Get(summaries, "http.response_time")>>
             ELSE <<>>

\* responseTimeStats: the first TTFB summary of a browser run, the
\* http.response_time summary otherwise; <<>> stands for undefined
ResponseTimeStats(log, isBrowserData) ==
    LET summaries == log.aggregate.summaries
        ttfbKeys == SelectKeys(summaries, "browser.page.TTFB.")
    IN  IF isBrowserData
        THEN IF Len(ttfbKeys) > 0 THEN <<Get(summaries, ttfbKeys[1])>> ELSE <<>>
        ELSE IF Has(summaries, "http.response_time")
             THEN <<Get(summaries, "http.response_time")>>
             ELSE <<>>

KeyMetricsSummary(log) ==
    LET isBrowserData == KeyMetricsIsBrowserData(log)
        responseTimeStats == ResponseTimeStats(log, isBrowserData)
        p95 == IF responseTimeStats = <<>> THEN 0 ELSE responseTimeStats[1].p95
        p99 == IF responseTimeStats = <<>> THEN 0 ELSE responseTimeStats[1].p99
        mean == IF responseTimeStats = <<>> THEN 0 ELSE responseTimeStats[1].mean
    IN  [type |-> "card",
         isBrowserData |-> isBrowserData,
         vusCreated |-> GetOrZero(log.aggregate.counters, "vusers.created"),
         vusCompleted |-> GetOrZero(log.aggregate.counters, "vusers.completed"),
         vusFailed |-> GetOrZero(log.aggregate.counters, "vusers.failed"),
         p95 |-> p95,
         p99 |-> p99,
         mean |-> mean,
         apdexRating |-> GetApdexRating(isBrowserData, p95),
         isPassFail |-> IsPassFail(isBrowserData, p95, p99)]

(***************************************************************************)
(* ChartsSection: the Time-Series Builder.                                 *)
(***************************************************************************)
CalculatePeriodSecondsNoFloor(entry) ==
    Rat(entry.lastCounterAt - entry.firstCounterAt, 1000)

CalculatePeriodSeconds(entry) ==
    LET periodMs == entry.lastCounterAt - entry.firstCounterAt IN
    RatMax(Rat(periodMs, 1000), RatInt(1))

RECURSIVE WeightedTotals(_, _, _)
\* the forEach over matchingKeys: <<totalValue, totalCount>>
WeightedTotals(summaries, matchingKeys, percentile) ==
    IF matchingKeys = <<>> THEN <<0, 0>>
    ELSE LET stats == Get(summaries, Head(matchingKeys))
             rest == WeightedTotals(summaries, Tail(matchingKeys), percentile)
         IN  <<stats[percentile] * stats.count + rest[1], stats.count + rest[2]>>

RECURSIVE PlainTotals(_, _, _)
PlainTotals(summaries, matchingKeys, percentile) ==
    IF matchingKeys = <<>> THEN <<0, 0>>
    ELSE LET stats == Get(summaries, Head(matchingKeys))
             rest == PlainTotals(summaries, Tail(matchingKeys), percentile)
         IN  <<stats[percentile] + rest[1], 1 + rest[2]>>

FindBrowserMetricUnweighted(entry, metricType, percentile) ==
    LET matchingKeys == SelectKeys(entry.summaries, "browser.page." \o metricType \o ".")
        totals == PlainTotals(entry.summaries, matchingKeys, percentile)
    IN  IF Len(matchingKeys) = 0 THEN RatInt(0)
        ELSE IF totals[2] > 0 THEN Rat(totals[1], totals[2]) ELSE RatInt(0)

FindBrowserMetricUndivided(entry, metricType, percentile) ==
    LET matchingKeys == SelectKeys(entry.summaries, "browser.page." \o metricType \o ".")
        totals == WeightedTotals(entry.summaries, matchingKeys, percentile)
    IN  RatInt(totals[1])

FindBrowserMetric(entry, metricType, percentile) ==
    LET matchingKeys == SelectKeys(entry.summaries, "browser.page." \o metricType \o ".")
        totals == WeightedTotals(entry.summaries, matchingKeys, percentile)
    IN  IF Len(matchingKeys) = 0 THEN RatInt(0)
        ELSE IF totals[2] > 0 THEN Rat(totals[1], totals[2]) ELSE RatInt(0)

\* entry.summaries[key]?.[field] || 0
SummaryField(entry, key, field) ==
    IF Has(entry.summaries, key) THEN Get(entry.summaries, key)[field] ELSE 0

HttpRequestRateSwappedKeys(entry, isBrowserData, periodSeconds) ==
    OrElse(RatInt(GetOrZero(entry.rates, "http.request_rate")),
           IF isBrowserData
           THEN DivByRat(GetOrZero(entry.counters, "http.requests"), periodSeconds)
           ELSE DivByRat(GetOrZero(entry.counters, "browser.http_requests"), periodSeconds))

HttpRequestRate(entry, isBrowserData, periodSeconds) ==
    OrElse(RatInt(GetOrZero(entry.rates, "http.request_rate")),
           IF isBrowserData
           THEN DivByRat(GetOrZero(entry.counters, "browser.http_requests"), periodSeconds)
           ELSE DivByRat(GetOrZero(entry.counters, "http.requests"), periodSeconds))

CumulativeOfIntervalAlone(intermediate, upTo, key) ==
    IF upTo = 0 THEN 0 ELSE GetOrZero(intermediate[upTo].counters, key)

RECURSIVE Cumulative(_, _, _)
\* intermediate.slice(0, index + 1).reduce((sum, e) => sum + (e.counters[key] || 0), 0)
Cumulative(intermediate, upTo, key) ==
    IF upTo = 0 THEN 0
    ELSE Cumulative(intermediate, upTo - 1, key)
         + GetOrZero(intermediate[upTo].counters, key)

VusConcurrentUnclamped(created, completed, failed) == created - completed - failed

VusConcurrent(created, completed, failed) == Max(0, created - completed - failed)

ResponseTimeHttpFirst(entry, percentile) ==
    OrElse(RatInt(SummaryField(entry, "http.response_time", percentile)),
           FindBrowserMetric(entry, "TTFB", percentile))

\* findBrowserMetric(entry, "TTFB", p) || entry.summaries["http.response_time"]?.[p] || 0
ResponseTime(entry, percentile) ==
    OrElse(FindBrowserMetric(entry, "TTFB", percentile),
           RatInt(SummaryField(entry, "http.response_time", percentile)))

\* the callback of data.intermediate.map, for the 1-based position i
TimeSeriesRow(log, isBrowserData, i) ==
    LET entry == log.intermediate[i]
        periodSeconds == CalculatePeriodSeconds(entry)
        vusCreatedCumulative == Cumulative(log.intermediate, i, "vusers.created")
        vusCompletedCumulative == Cumulative(log.intermediate, i, "vusers.completed")
        vusFailedCumulative == Cumulative(log.intermediate, i, "vusers.failed")
    IN  [index |-> i - 1,
         periodSeconds |-> periodSeconds,
         httpRequestRate |-> HttpRequestRate(entry, isBrowserData, periodSeconds),
         vusCreated |-> GetOrZero(entry.counters, "vusers.created"),
         vusActive |-> GetOrZero(entry.counters, "vusers.active"),
         vusCompleted |-> GetOrZero(entry.counters, "vusers.completed"),
         vusFailed |-> GetOrZero(entry.counters, "vusers.failed"),
         vusConcurrent |->
             VusConcurrent(vusCreatedCumulative, vusCompletedCumulative, vusFailedCumulative),
         vusCreatedCumulative |-> vusCreatedCumulative,
         vusCompletedCumulative |-> vusCompletedCumulative,
         vusFailedCumulative |-> vusFailedCumulative,
         responseTimeP50 |-> ResponseTime(entry, "p50"),
         responseTimeP95 |-> ResponseTime(entry, "p95"),
         responseTimeP99 |-> ResponseTime(entry, "p99"),
         responseTimeMax |-> ResponseTime(entry, "max"),
         fcpP50 |-> FindBrowserMetric(entry, "FCP", "p50"),
         fcpP95 |-> FindBrowserMetric(entry, "FCP", "p95"),
         lcpP50 |-> FindBrowserMetric(entry, "LCP", "p50"),
         lcpP95 |-> FindBrowserMetric(entry, "LCP", "p95"),
         sessionLengthMean |-> SummaryField(entry, "vusers.session_length", "mean"),
         sessionLengthP95 |-> SummaryField(entry, "vusers.session_length", "p95"),
         sessionLengthP99 |-> SummaryField(entry, "vusers.session_length", "p99")]

(***************************************************************************)
(* String operations of the reducers.                                      *)
(***************************************************************************)
RECURSIVE IndexOf(_, _, _)
\* the first position at or after from where pattern occurs in str, 0 if none
IndexOf(str, pattern, from) ==
    IF from + Len(pattern) - 1 > Len(str) THEN 0
    ELSE IF SubSeq(str, from, from + Len(pattern) - 1) = pattern THEN from
    ELSE IndexOf(str, pattern, from + 1)

\* str.includes(pattern)
Includes(str, pattern) == IndexOf(str, pattern, 1) # 0

\* str.replace(pattern, ""): the first occurrence only, wherever it is
ReplaceFirst(str, pattern) ==
    LET at == IndexOf(str, pattern, 1) IN
    IF at = 0 THEN str
    ELSE SubSeq(str, 1, at - 1) \o SubSeq(str, at + Len(pattern), Len(str))

RECURSIVE FirstOf(_, _, _)
\* the first position at or after from holding one of chars, Len(str) + 1 if none
FirstOf(str, chars, from) ==
    IF from > Len(str) THEN Len(str) + 1
    ELSE IF SubSeq(str, from, from) \in chars THEN from
    ELSE FirstOf(str, chars, from + 1)

Whitespace == {" "}

RECURSIVE HttpsMatchFrom(_, _)
HttpsMatchFrom(key, from) ==
    LET at == IndexOf(key, "https://", from) IN
    IF at = 0 \/ at + 8 > Len(key) THEN ""
    ELSE IF SubSeq(key, at + 8, at + 8) \in Whitespace THEN HttpsMatchFrom(key, at + 1)
    ELSE SubSeq(key, at, FirstOf(key, Whitespace, at + 8) - 1)

\* key.match(/https:\/\/[^\s]+/): the matched text, "" for no match
HttpsMatch(key) == HttpsMatchFrom(key, 1)

ForbiddenHostChars == {"<", ">", "^", "|"}

\* the host of an authority: what stands before the port
HostOf(authority) == SubSeq(authority, 1, FirstOf(authority, {":"}, 1) - 1)

\* the URL record for the text behind https://, its authority ending
\* before authorityEnd
UrlOf(rest, authorityEnd, host) ==
    IF host = "" \/ FirstOf(host, ForbiddenHostChars, 1) <= Len(host)
    THEN [ok |-> FALSE, pathname |-> ""]
    ELSE [ok |-> TRUE,
          pathname |-> IF authorityEnd > Len(rest) \/ SubSeq(rest, authorityEnd, authorityEnd) # "/"
                       THEN "/"
                       ELSE SubSeq(rest, authorityEnd, FirstOf(rest, {"?", "#"}, authorityEnd) - 1)]

UrlOfRest(rest, authorityEnd) ==
    UrlOf(rest, authorityEnd, HostOf(SubSeq(rest, 1, authorityEnd - 1)))

\* new URL(url) for an https URL: a thrown TypeError (ok FALSE) for an empty
\* host or a forbidden host code point, else the pathname, "/" when the URL
\* has no path
ParseUrl(url) ==
    UrlOfRest(SubSeq(url, 9, Len(url)), FirstOf(SubSeq(url, 9, Len(url)), {"/", "?", "#"}, 1))

(***************************************************************************)
(* The breakdowns of ChartsSection.                                        *)
(***************************************************************************)
RECURSIVE InsertByCountBeforeTies(_, _)
InsertByCountBeforeTies(sorted, item) ==
    IF sorted = <<>> THEN <<item>>
    ELSE IF Head(sorted).count > item.count
         THEN <<Head(sorted)>> \o InsertByCountBeforeTies(Tail(sorted), item)
         ELSE <<item>> \o sorted

RECURSIVE InsertByCount(_, _)
\* item placed behind every item of sorted whose count is not smaller
InsertByCount(sorted, item) ==
    IF sorted = <<>> THEN <<item>>
    ELSE IF Head(sorted).count >= item.count
         THEN <<Head(sorted)>> \o InsertByCount(Tail(sorted), item)
         ELSE <<item>> \o sorted

RECURSIVE SortByCount(_)
\* items.sort((a, b) => b.count - a.count), a stable sort
SortByCount(items) ==
    IF items = <<>> THEN <<>>
    ELSE InsertByCount(SortByCount(SubSeq(items, 1, Len(items) - 1)), items[Len(items)])

\* items.slice(0, n)
Slice(items, n) == SubSeq(items, 1, IF Len(items) < n THEN Len(items) ELSE n)

IsCodeKey(key) == StartsWith(key, "http.codes.") \/ StartsWith(key, "browser.page.codes.")

HttpCodesData(log) ==
    LET IsCode(m) == IsCodeKey(m.k)
        codes == SelectSeq(log.aggregate.counters, IsCode)
    IN  [j \in 1..Len(codes) |->
            [code |-> ReplaceFirst(ReplaceFirst(codes[j].k, "http.codes."),
                                   "browser.page.codes."),
             count |-> codes[j].v]]

UserFlowsData(log) ==
    LET IsFlow(m) == StartsWith(m.k, "vusers.created_by_name.")
        flows == SelectSeq(log.aggregate.counters, IsFlow)
        mapped == [j \in 1..Len(flows) |->
                      [flow |-> ReplaceFirst(flows[j].k, "vusers.created_by_name."),
                       count |-> flows[j].v]]
    IN  Slice(SortByCount(mapped), 5)

RatScale(r, k) == [n |-> r.n * k, d |-> r.d]

RatPlusInt(r, k) == [n |-> r.n + k * r.d, d |-> r.d]

RatOverInt(r, k) == [n |-> r.n, d |-> r.d * k]

IsPageMetricKey(key) ==
    \/ Includes(key, "browser.page.") /\ Includes(key, "https://")
    \/ Includes(key, "dominteractive") /\ Includes(key, "https://")

EndpointOfUrlFailureAsRoot(urlObj) ==
    IF ~urlObj.ok THEN [ok |-> TRUE, endpoint |-> "/"]
    ELSE [ok |-> TRUE,
          endpoint |-> IF StartsWith(urlObj.pathname, "/chat/")
                       THEN "/chat/[id]"
                       ELSE urlObj.pathname]

\* the endpoint of a parsed URL: chat pages are grouped
EndpointOfUrl(urlObj) ==
    IF ~urlObj.ok THEN [ok |-> FALSE, endpoint |-> ""]
    ELSE [ok |-> TRUE,
          endpoint |-> IF StartsWith(urlObj.pathname, "/chat/")
                       THEN "/chat/[id]"
                       ELSE urlObj.pathname]

EndpointOfMatch(httpsMatch) ==
    IF httpsMatch = "" THEN [ok |-> FALSE, endpoint |-> ""]
    ELSE EndpointOfUrl(ParseUrl(httpsMatch))

\* the endpoint a summary key is counted under, ok FALSE for a key that is
\* passed over: not a page metric of an https URL, no URL matched, or a URL
\* that new URL rejects
EndpointOfKey(key) ==
    IF ~IsPageMetricKey(key) THEN [ok |-> FALSE, endpoint |-> ""]
    ELSE EndpointOfMatch(HttpsMatch(key))

\* the position of the endpoint's item in acc, 0 if it has none
PositionOf(acc, endpoint) ==
    IF \E j \in 1..Len(acc) : acc[j].endpoint = endpoint
    THEN CHOOSE j \in 1..Len(acc) : acc[j].endpoint = endpoint
    ELSE 0

\* acc[endpoint], or the item a first key of the endpoint starts from
SummaryItem(acc, at, endpoint) ==
    IF at = 0
    THEN [endpoint |-> endpoint, count |-> 0,
          avgResponseTime |-> RatInt(0), totalResponseTime |-> 0]
    ELSE acc[at]

\* the item after count += stats.count || 0 and the guarded update of the
\* total and the average
SummaryUpdate(item, stats) ==
    IF stats.mean # 0 /\ stats.count # 0
    THEN [endpoint |-> item.endpoint,
          count |-> item.count + stats.count,
          avgResponseTime |->
              Rat(item.totalResponseTime + stats.mean * stats.count,
                  item.count + stats.count),
          totalResponseTime |-> item.totalResponseTime + stats.mean * stats.count]
    ELSE [item EXCEPT !.count = item.count + stats.count]

\* acc with the item at position at replaced, or appended for at = 0
Put(acc, at, item) == IF at = 0 THEN Append(acc, item) ELSE [acc EXCEPT ![at] = item]

SummaryAt(acc, at, endpoint, stats) ==
    Put(acc, at, SummaryUpdate(SummaryItem(acc, at, endpoint), stats))

SummaryUnder(acc, target, stats) ==
    IF ~target.ok THEN acc
    ELSE SummaryAt(acc, PositionOf(acc, target.endpoint), target.endpoint, stats)

\* the body of endpointSummary's forEach for one summaries member
SummaryStep(acc, key, stats) == SummaryUnder(acc, EndpointOfKey(key), stats)

RECURSIVE SummaryOfEntry(_, _)
\* Object.entries(entry.summaries).forEach(...) of endpointSummary
SummaryOfEntry(acc, summaries) ==
    IF summaries = <<>> THEN acc
    ELSE SummaryOfEntry(SummaryStep(acc, Head(summaries).k, Head(summaries).v),
                        Tail(summaries))

RECURSIVE EndpointSummary(_)
\* data.intermediate.reduce(..., {}) as the items of the accumulator in
\* insertion order
EndpointSummary(intermediate) ==
    IF intermediate = <<>> THEN <<>>
    ELSE SummaryOfEntry(EndpointSummary(SubSeq(intermediate, 1, Len(intermediate) - 1)),
                        intermediate[Len(intermediate)].summaries)

EndpointSummaryData(log) ==
    LET Counted(item) == item.count > 0 IN
    SortByCount(SelectSeq(EndpointSummary(log.intermediate), Counted))

TimeSeriesItem(endpoints, at, endpoint) ==
    IF at = 0
    THEN [endpoint |-> endpoint, count |-> 0, responseTime |-> RatInt(0)]
    ELSE endpoints[at]

\* newTotal / endpoints[endpoint].count, for the count after the increase
RunningMean(responseTime, count, stats) ==
    RatOverInt(RatPlusInt(RatScale(responseTime, count - stats.count),
                          stats.mean * stats.count),
               count)

TimeSeriesUpdate(item, stats) ==
    IF stats.mean # 0 /\ stats.count # 0
    THEN [endpoint |-> item.endpoint,
          count |-> item.count + stats.count,
          responseTime |-> RunningMean(item.responseTime, item.count + stats.count, stats)]
    ELSE [item EXCEPT !.count = item.count + stats.count]

TimeSeriesAt(endpoints, at, endpoint, stats) ==
    Put(endpoints, at, TimeSeriesUpdate(TimeSeriesItem(endpoints, at, endpoint), stats))

TimeSeriesUnder(endpoints, target, stats) ==
    IF ~target.ok THEN endpoints
    ELSE TimeSeriesAt(endpoints, PositionOf(endpoints, target.endpoint), target.endpoint, stats)

\* the body of endpointTimeSeriesData's forEach for one summaries member
TimeSeriesStep(endpoints, key, stats) ==
    TimeSeriesUnder(endpoints, EndpointOfKey(key), stats)

RECURSIVE EndpointsOfEntry(_, _)
EndpointsOfEntry(endpoints, summaries) ==
    IF summaries = <<>> THEN endpoints
    ELSE EndpointsOfEntry(TimeSeriesStep(endpoints, Head(summaries).k, Head(summaries).v),
                          Tail(summaries))

\* endpoints[endpoint]?.count || 0
CountAt(endpoints, at) == IF at = 0 THEN 0 ELSE endpoints[at].count

\* endpoints[endpoint]?.responseTime || 0
ResponseTimeAt(endpoints, at) == IF at = 0 THEN RatInt(0) ELSE endpoints[at].responseTime

EndpointRow(endpoints, index) ==
    [index |-> index,
     rootCount |-> CountAt(endpoints, PositionOf(endpoints, "/")),
     rootResponseTime |-> ResponseTimeAt(endpoints, PositionOf(endpoints, "/")),
     chatCount |-> CountAt(endpoints, PositionOf(endpoints, "/chat/[id]")),
     chatResponseTime |-> ResponseTimeAt(endpoints, PositionOf(endpoints, "/chat/[id]"))]

\* the callback of endpointTimeSeriesData's map, for the 1-based position i
EndpointTimeSeriesRow(log, i) ==
    EndpointRow(EndpointsOfEntry(<<>>, log.intermediate[i].summaries), i - 1)

EndpointTimeSeriesData(log) ==
    [i \in 1..Len(log.intermediate) |-> EndpointTimeSeriesRow(log, i)]

(***************************************************************************)
(* The panels of AdditionalPanels.                                         *)
(***************************************************************************)
\* the members of a SummaryStats in the order artillery writes them
StatsKeys ==
    <<"min", "max", "count", "mean", "p50", "median", "p75", "p90", "p95", "p99", "p999">>

\* Object.entries(stats)
StatsEntries(stats) == [j \in 1..Len(StatsKeys) |-> [k |-> StatsKeys[j], v |-> stats[StatsKeys[j]]]]

\* data.aggregate.histograms["http.response_time"] of a log written without
\* histograms, read on the protocol branch: a TypeError during the render
HistogramFault(log) == ~PanelsIsBrowserData(log) /\ ~log.aggregate.hasHistograms

HistogramDataFromSummaries(log) ==
    IF PanelsIsBrowserData(log)
    THEN LET fcpSummaries == SelectKeys(log.aggregate.summaries, "browser.page.FCP.") IN
         IF Len(fcpSummaries) > 0
         THEN LET fcpData == Get(log.aggregate.summaries, fcpSummaries[1]) IN
              <<[range |-> "P50", count |-> fcpData.p50],
                [range |-> "P75", count |-> fcpData.p75],
                [range |-> "P90", count |-> fcpData.p90],
                [range |-> "P95", count |-> fcpData.p95],
                [range |-> "P99", count |-> fcpData.p99],
                [range |-> "Max", count |-> fcpData.max]>>
         ELSE <<>>
    ELSE IF Has(log.aggregate.histograms, "http.response_time")
         THEN LET entries == StatsEntries(Get(log.aggregate.histograms, "http.response_time")) IN
              [j \in 1..Len(entries) |-> [range |-> entries[j].k, count |-> entries[j].v]]
         ELSE <<>>

\* for a log without histograms the browser branch reads
\* data.aggregate.histograms || {}, the empty sequence here
HistogramData(log) ==
    IF PanelsIsBrowserData(log)
    THEN LET fcpHistograms == SelectKeys(log.aggregate.histograms, "browser.page.FCP.") IN
         IF Len(fcpHistograms) > 0
         THEN LET fcpData == Get(log.aggregate.histograms, fcpHistograms[1]) IN
              <<[range |-> "P50", count |-> fcpData.p50],
                [range |-> "P75", count |-> fcpData.p75],
                [range |-> "P90", count |-> fcpData.p90],
                [range |-> "P95", count |-> fcpData.p95],
                [range |-> "P99", count |-> fcpData.p99],
                [range |-> "Max", count |-> fcpData.max]>>
         ELSE <<>>
    ELSE IF Has(log.aggregate.histograms, "http.response_time")
         THEN LET entries == StatsEntries(Get(log.aggregate.histograms, "http.response_time")) IN
              [j \in 1..Len(entries) |-> [range |-> entries[j].k, count |-> entries[j].v]]
         ELSE <<>>

IsUrlKey(isBrowserData, key) ==
    IF isBrowserData THEN StartsWith(key, "browser.page.codes.")
    ELSE StartsWith(key, "http.requests.") /\ ~StartsWith(key, "http.requests.total")

UrlRequestsData(log) ==
    LET isBrowserData == PanelsIsBrowserData(log)
        IsUrl(m) == IsUrlKey(isBrowserData, m.k)
        urls == SelectSeq(log.aggregate.counters, IsUrl)
        prefix == IF isBrowserData THEN "browser.page.codes." ELSE "http.requests."
    IN  SortByCount([j \in 1..Len(urls) |->
                        [url |-> ReplaceFirst(urls[j].k, prefix), count |-> urls[j].v]])

AdditionalPanels(log) ==
    [type |-> "panels",
     isBrowserData |-> PanelsIsBrowserData(log),
     histogramData |-> HistogramData(log),
     urlRequestsData |-> UrlRequestsData(log)]

(***************************************************************************)
(* The logs the derivation is checked on.                                  *)
(***************************************************************************)
Member(k, v) == [k |-> k, v |-> v]

\* no member, or one member k with a value of vals
Optional(k, vals) == {<<>>} \cup {<<Member(k, v)>> : v \in vals}

ResultLog(aggregate, intermediate) ==
    [type |-> "object",
     testId |-> "T",
     has |-> {"aggregate", "intermediate"},
     aggregate |-> aggregate,
     intermediate |-> intermediate]

Entry(counters, rates, summaries, firstCounterAt, lastCounterAt) ==
    [counters |-> counters,
     rates |-> rates,
     summaries |-> summaries,
     hasHistograms |-> TRUE,
     histograms |-> <<>>,
     firstCounterAt |-> firstCounterAt,
     lastCounterAt |-> lastCounterAt]

\* entry with these histograms
WithHistograms(entry, histograms) == [entry EXCEPT !.histograms = histograms]

\* entry written without a histograms member
WithoutHistograms(entry) == [entry EXCEPT !.hasHistograms = FALSE, !.histograms = <<>>]

RECURSIVE AddMember(_, _)
\* obj with the value of member m added under m.k
AddMember(obj, m) ==
    IF obj = <<>> THEN <<m>>
    ELSE IF Head(obj).k = m.k
         THEN <<Member(m.k, Head(obj).v + m.v)>> \o Tail(obj)
         ELSE <<Head(obj)>> \o AddMember(Tail(obj), m)

RECURSIVE AddMembers(_, _)
AddMembers(obj, members) ==
    IF members = <<>> THEN obj
    ELSE AddMembers(AddMember(obj, Head(members)), Tail(members))

RECURSIVE SumCounters(_)
\* the counters of the aggregate record a run with these intervals reports
SumCounters(intermediate) ==
    IF intermediate = <<>> THEN <<>>
    ELSE AddMembers(SumCounters(SubSeq(intermediate, 1, Len(intermediate) - 1)),
                    intermediate[Len(intermediate)].counters)

\* the log of a run with these intervals, its aggregate record holding no summary
RunLog(intermediate) ==
    ResultLog(Entry(SumCounters(intermediate), <<>>, <<>>, 1000, 5000), intermediate)

\* a SummaryStats whose fields are distinct multiples of base
StatsOf(count, base) ==
    [count |-> count, min |-> base, mean |-> 3 * base, p50 |-> 2 * base,
     median |-> 2 * base, p75 |-> 4 * base, p90 |-> 5 * base, p95 |-> 6 * base,
     p99 |-> 7 * base, p999 |-> 8 * base, max |-> 9 * base]

ScoreStats(p95, p99) ==
    [count |-> 10, min |-> 0, mean |-> p95, p50 |-> 0, median |-> 0, p75 |-> 0,
     p90 |-> 0, p95 |-> p95, p99 |-> p99, p999 |-> p99, max |-> p99]

P99Values == {199, 200, 299, 300}

ScoreEntry(b, p95, p99) ==
    Entry(IF b THEN <<Member("browser.http_requests", 7)>>
               ELSE <<Member("http.requests", 7)>>,
          <<>>,
          <<Member(IF b THEN "browser.page.TTFB.https://host/"
                        ELSE "http.response_time",
                   ScoreStats(p95, p99))>>,
          1000, 3000)

\* one interval, and an aggregate record equal to it, with one response-time summary
ScoreLogs ==
    {ResultLog(ScoreEntry(b, p95, p99), <<ScoreEntry(b, p95, p99)>>) :
        b \in BOOLEAN, p95 \in 0..MaxP95, p99 \in P99Values}

ClassifyCounters ==
    {<<>>,
     <<Member("http.requests", 1)>>,
     <<Member("browser.http_requests", 1)>>,
     <<Member("browsers.launched", 1)>>}

\* any aggregate counters with any up to MaxIntervals interval counters
ClassifyLogs ==
    UNION {{ResultLog(Entry(aggregate, <<>>, <<>>, 1000, 5000),
                      [i \in 1..n |-> Entry(counters[i], <<>>, <<>>, 1000, 2000)]) :
               aggregate \in ClassifyCounters, counters \in [1..n -> ClassifyCounters]} :
           n \in 0..MaxIntervals}

\* up to MaxIntervals intervals of virtual-user counters, each present or absent
ConcEntries ==
    {Entry(created \o completed \o failed, <<>>, <<>>, 1000, 2000) :
        created \in Optional("vusers.created", {0, 2}),
        completed \in Optional("vusers.completed", {1, 3}),
        failed \in Optional("vusers.failed", {1})}

ConcLogs ==
    UNION {{RunLog(intermediate) : intermediate \in [1..n -> ConcEntries]} :
           n \in 1..MaxIntervals}

\* an interval that holds a browser counter and nothing else
BrowserMarkerEntry ==
    Entry(<<Member("browser.page.domcontentloaded", 1)>>, <<>>, <<>>, 3000, 4000)

PeriodsMs == {0 - 1000, 0, 500, 1000, 2500}

RateEntries ==
    {Entry(browserRequests \o httpRequests, rate, <<>>, 1000, 1000 + periodMs) :
        browserRequests \in Optional("browser.http_requests", {3}),
        httpRequests \in Optional("http.requests", {0, 4}),
        rate \in Optional("http.request_rate", {0, 5}),
        periodMs \in PeriodsMs}

RateLogs ==
    {RunLog(<<e>> \o tail) :
        e \in RateEntries, tail \in {<<>>, <<BrowserMarkerEntry>>}}

TtfbStats == {StatsOf(0, 10), StatsOf(1, 10), StatsOf(3, 40), StatsOf(2, 0)}

PctEntries ==
    {Entry(counters, <<>>, ttfbRoot \o fcpRoot \o http \o ttfbChat \o fcpChat \o lcp \o near,
           1000, 2000) :
        counters \in Optional("browser.http_requests", {3}),
        ttfbRoot \in Optional("browser.page.TTFB.https://host/", TtfbStats),
        ttfbChat \in Optional("browser.page.TTFB.https://host/chat/1", TtfbStats),
        fcpRoot \in Optional("browser.page.FCP.https://host/", {StatsOf(1, 10), StatsOf(3, 40)}),
        fcpChat \in Optional("browser.page.FCP.https://host/chat/1", {StatsOf(1, 20)}),
        lcp \in Optional("browser.page.LCP.https://host/", {StatsOf(2, 30), StatsOf(0, 10)}),
        http \in Optional("http.response_time", {StatsOf(5, 70)}),
        near \in Optional("browser.page.TTFBx.https://host/", {StatsOf(1, 90)})}

PctLogs == {RunLog(<<e>>) : e \in PctEntries}

\* aggregate counters of the URL and status-code breakdowns
UrlCounters ==
    {marker \o plain \o a \o total \o b \o totals \o page200 \o http200 \o page404 \o nested :
        marker \in Optional("browser.http_requests", {1}),
        plain \in Optional("http.requests", {9}),
        a \in Optional("http.requests./a", {1, 3}),
        total \in Optional("http.requests.total", {4}),
        b \in Optional("http.requests./b", {3}),
        totals \in Optional("http.requests.totals", {2}),
        page200 \in Optional("browser.page.codes.200", {2, 5}),
        http200 \in Optional("http.codes.200", {7}),
        page404 \in Optional("browser.page.codes.404", {5}),
        nested \in Optional("http.codes.browser.page.codes.404", {1})}

UrlLogs == {RunLog(<<Entry(counters, <<>>, <<>>, 1000, 2000)>>) : counters \in UrlCounters}

MaxFlows == 6

FlowNames == <<"a", "b", "c", "d", "e", "f", "g", "h">>

RECURSIVE FlowCounters(_)
\* the counters with each of the first n flows absent or created 1 or 2 times
FlowCounters(n) ==
    IF n = 0 THEN {<<>>}
    ELSE {front \o flow :
            front \in FlowCounters(n - 1),
            flow \in Optional("vusers.created_by_name." \o FlowNames[n], {1, 2})}

FlowLogs ==
    {RunLog(<<Entry(counters, <<>>, <<>>, 1000, 2000)>>) : counters \in FlowCounters(MaxFlows)}

EndpointEntries ==
    {Entry(<<Member("browser.http_requests", 1)>>, <<>>,
           chat1 \o bad \o root \o chat2 \o bare \o about \o http \o chat4, 1000, 2000) :
        chat1 \in Optional("browser.page.FCP.https://host/chat/1", {StatsOf(2, 10), StatsOf(1, 20)}),
        bad \in Optional("browser.page.FCP.https://ho<st/chat/3", {StatsOf(5, 7)}),
        root \in Optional("browser.page.TTFB.https://host", {StatsOf(4, 5)}),
        chat2 \in Optional("browser.page.CLS.https://host/chat/2?q=1", {StatsOf(3, 0)}),
        bare \in Optional("browser.page.FCP.https://", {StatsOf(1, 1)}),
        about \in Optional("dominteractive.https://host:8080/about", {StatsOf(1, 30)}),
        http \in Optional("http.response_time", {StatsOf(5, 70)}),
        chat4 \in Optional("browser.page.LCP.https://host/chat/4", {StatsOf(1, 20)})}

SecondEntries ==
    {Entry(<<>>, <<>>, chat2 \o chat1, 2000, 3000) :
        chat2 \in Optional("browser.page.CLS.https://host/chat/2?q=1", {StatsOf(3, 0)}),
        chat1 \in Optional("browser.page.FCP.https://host/chat/1", {StatsOf(1, 20)})}

EndpointLogs ==
    {RunLog(<<e>> \o tail) :
        e \in EndpointEntries, tail \in {<<>>} \cup {<<t>> : t \in SecondEntries}}

\* a log whose aggregate record holds these counters, summaries and histograms
AggregateLog(counters, summaries, histograms) ==
    ResultLog(WithHistograms(Entry(counters, <<>>, summaries, 1000, 5000), histograms),
              <<Entry(counters, <<>>, <<>>, 1000, 5000)>>)

HistLogs ==
    {AggregateLog(marker, summary, other \o fcp \o http) :
        marker \in Optional("browser.http_requests", {1}),
        summary \in Optional("browser.page.FCP.https://host/", {StatsOf(3, 40)}),
        other \in Optional("browser.page.LCP.https://host/", {StatsOf(2, 30)}),
        fcp \in {<<>>,
                 <<Member("browser.page.FCP.https://host/", StatsOf(1, 10))>>,
                 <<Member("browser.page.FCP.https://host/", StatsOf(1, 10)),
                   Member("browser.page.FCP.https://host/chat/1", StatsOf(2, 20))>>,
                 <<Member("browser.page.FCP.https://host/chat/1", StatsOf(2, 20)),
                   Member("browser.page.FCP.https://host/", StatsOf(1, 10))>>},
        http \in Optional("http.response_time", {StatsOf(5, 70)})}

\* logs whose aggregate record has no histograms member
NoHistogramLogs ==
    {ResultLog(WithoutHistograms(Entry(marker, <<>>, summary, 1000, 5000)),
               <<Entry(marker, <<>>, <<>>, 1000, 5000)>>) :
        marker \in Optional("browser.http_requests", {1}),
        summary \in Optional("browser.page.FCP.https://host/", {StatsOf(3, 40)})}

\* the response-time summaries of one record: up to two TTFB summaries and the
\* http.response_time summary, a summary of count 0 carrying stale values
CardSummaries ==
    {ttfbRoot \o ttfbChat \o http :
        ttfbRoot \in Optional("browser.page.TTFB.https://host/",
                              {StatsOf(1, 10), StatsOf(3, 40), StatsOf(0, 80)}),
        ttfbChat \in Optional("browser.page.TTFB.https://host/chat/1", {StatsOf(3, 40)}),
        http \in Optional("http.response_time", {StatsOf(5, 70), StatsOf(0, 80)})}

CardEntry(marker, summaries) == Entry(marker, <<>>, summaries, 1000, 3000)

\* one interval, and an aggregate record equal to it
CardLogs ==
    {ResultLog(CardEntry(marker, summaries), <<CardEntry(marker, summaries)>>) :
        marker \in Optional("browser.http_requests", {7}),
        summaries \in CardSummaries}

DeriveLogs ==
    ScoreLogs \cup ClassifyLogs \cup ConcLogs \cup RateLogs \cup PctLogs
        \cup UrlLogs \cup FlowLogs \cup EndpointLogs \cup HistLogs
        \cup NoHistogramLogs \cup CardLogs

(***************************************************************************)
(* The render of Dashboard on a held ResultLog: KeyMetricsSummary, then    *)
(* ChartsSection (the classification, then one row per interval record),   *)
(* then AdditionalPanels.                                                  *)
(***************************************************************************)
InitDerive ==
    /\ data \in DeriveLogs
    /\ pending = <<>>
    /\ console = 0
    /\ view = HomeRender(data)
    /\ dropped = 1
    /\ lastDropped = TextLogT
    /\ renders = <<Shown(data)>>
    /\ card = NoCard
    /\ charts = NoCharts
    /\ panels = NoPanels

RenderKeyMetricsSummary ==
    /\ view = "dashboard"
    /\ card.type = "none"
    /\ card' = KeyMetricsSummary(data)
    /\ UNCHANGED <<data, pending, console, view, dropped, lastDropped, renders, charts, panels>>

ChartsSectionClassify ==
    /\ card.type # "none"
    /\ charts.type = "none"
    /\ charts' = [type |-> "charts",
                  isBrowserData |-> ChartsIsBrowserData(data),
                  rows |-> <<>>,
                  reduced |-> FALSE,
                  httpCodesData |-> <<>>,
                  userFlowsData |-> <<>>,
                  endpointTimeSeriesData |-> <<>>,
                  endpointSummaryData |-> <<>>]
    /\ UNCHANGED <<data, pending, console, view, dropped, lastDropped, renders, card, panels>>

ChartsSectionMapRow ==
    /\ charts.type # "none"
    /\ Len(charts.rows) < Len(data.intermediate)
    /\ charts' = [charts EXCEPT
                    !.rows = Append(@, TimeSeriesRow(data, charts.isBrowserData, Len(@) + 1))]
    /\ UNCHANGED <<data, pending, console, view, dropped, lastDropped, renders, card, panels>>

\* the breakdowns ChartsSection computes after the rows
ChartsSectionReduce ==
    /\ charts.type # "none"
    /\ Len(charts.rows) = Len(data.intermediate)
    /\ ~charts.reduced
    /\ charts' = [charts EXCEPT
                    !.reduced = TRUE,
                    !.httpCodesData = HttpCodesData(data),
                    !.userFlowsData = UserFlowsData(data),
                    !.endpointTimeSeriesData = EndpointTimeSeriesData(data),
                    !.endpointSummaryData = EndpointSummaryData(data)]
    /\ UNCHANGED <<data, pending, console, view, dropped, lastDropped, renders, card, panels>>

RenderAdditionalPanels ==
    /\ charts.type # "none"
    /\ charts.reduced
    /\ panels.type = "none"
    /\ view = "dashboard"
    /\ IF HistogramFault(data)
       THEN /\ view' = "crashed"
            /\ card' = NoCard
            /\ charts' = NoCharts
            /\ panels' = panels
       ELSE /\ view' = view
            /\ panels' = AdditionalPanels(data)
            /\ UNCHANGED <<card, charts>>
    /\ UNCHANGED <<data, pending, console, dropped, lastDropped, renders>>

NextDerive ==
    \/ RenderKeyMetricsSummary
    \/ ChartsSectionClassify
    \/ ChartsSectionMapRow
    \/ ChartsSectionReduce
    \/ RenderAdditionalPanels

SpecDerive == InitDerive /\ [][NextDerive]_vars

(***************************************************************************)
(* Claims about the derivation layer, checked under SpecDerive.            *)
(***************************************************************************)
Rows == IF charts.type = "charts" THEN charts.rows ELSE <<>>

\* C1: the three components classify one log alike: the flag ChartsSection
\* computes from the interval records equals the flag KeyMetricsSummary and
\* AdditionalPanels compute from the aggregate record.
C1_SingleClassification ==
    (card.type = "card" /\ charts.type = "charts" /\ panels.type = "panels")
    => (/\ charts.isBrowserData = card.isBrowserData
        /\ charts.isBrowserData = panels.isBrowserData)

\* C2: the Apdex rating is a total step function of p95 with threshold 100
\* (browser) or 150 (protocol): satisfied iff p95 < T, tolerated iff
\* T <= p95 <= 3T, frustrated iff p95 > 3T, and exactly one of them applies.
C2_ApdexStepFunction ==
    card.type = "card" =>
        LET T == IF card.isBrowserData THEN 100 ELSE 150
            rating == card.apdexRating
        IN  /\ rating \in {"satisfied", "tolerated", "frustrated"}
            /\ (rating = "satisfied") <=> (card.p95 < T)
            /\ (rating = "tolerated") <=> (T <= card.p95 /\ card.p95 <= 3 * T)
            /\ (rating = "frustrated") <=> (card.p95 > 3 * T)
            /\ (card.isBrowserData /\ card.p95 = 99) => rating = "satisfied"
            /\ (card.isBrowserData /\ card.p95 \in {100, 300}) => rating = "tolerated"
            /\ (card.isBrowserData /\ card.p95 = 301) => rating = "frustrated"

C2_Witness ==
    /\ card.type = "card"
    /\ card.isBrowserData
    /\ card.p95 = 300
    /\ card.apdexRating = "tolerated"

\* C3: the verdict is PASS iff p99 < 200 (browser) or 300 (protocol) and
\* p95 < 100 (browser) or 150 (protocol); a protocol run with p99 = 300 fails
\* for every p95, one with p99 = 299 and p95 = 149 passes.
C3_PassFailVerdict ==
    card.type = "card" =>
        /\ card.isPassFail <=>
              (/\ card.p99 < (IF card.isBrowserData THEN 200 ELSE 300)
               /\ card.p95 < (IF card.isBrowserData THEN 100 ELSE 150))
        /\ (~card.isBrowserData /\ card.p99 = 300) => ~card.isPassFail
        /\ (~card.isBrowserData /\ card.p99 = 299 /\ card.p95 = 149) => card.isPassFail

C3_Witness ==
    /\ card.type = "card"
    /\ ~card.isBrowserData
    /\ card.p99 = 299
    /\ card.p95 = 149
    /\ card.isPassFail

\* C7: the concurrentUsers value of every time-series row is >= 0, whatever
\* the created / completed / failed counters of the interval records are.
C7_ConcurrentNeverNegative ==
    \A i \in 1..Len(Rows) : Rows[i].vusConcurrent >= 0

C7_Witness ==
    \E i \in 1..Len(Rows) :
        /\ Rows[i].vusCompletedCumulative + Rows[i].vusFailedCumulative
              > Rows[i].vusCreatedCumulative
        /\ ~Has(data.intermediate[i].counters, "vusers.created")
        /\ Rows[i].vusConcurrent = 0

\* C8: periodSeconds of every interval record is max((last - first) / 1000, 1),
\* hence >= 1 also when lastCounterAt = firstCounterAt, and the request rate
\* derived with it has a nonzero divisor.
C8_PeriodAtLeastOneSecond ==
    \A i \in 1..Len(Rows) :
        LET periodSeconds == Rows[i].periodSeconds
            periodMs == data.intermediate[i].lastCounterAt
                            - data.intermediate[i].firstCounterAt
        IN  /\ periodSeconds.d > 0
            /\ periodSeconds.n >= periodSeconds.d
            /\ periodSeconds.n * 1000 >= periodMs * periodSeconds.d
            /\ \/ periodSeconds.n = periodSeconds.d
               \/ periodSeconds.n * 1000 = periodMs * periodSeconds.d
            /\ Rows[i].httpRequestRate.d # 0

C8_Witness ==
    \E i \in 1..Len(Rows) :
        /\ data.intermediate[i].lastCounterAt = data.intermediate[i].firstCounterAt
        /\ ~Has(data.intermediate[i].rates, "http.request_rate")
        /\ Has(data.intermediate[i].counters, "http.requests")
        /\ Get(data.intermediate[i].counters, "http.requests") = 4
        /\ RatEq(Rows[i].periodSeconds, RatInt(1))
        /\ RatEq(Rows[i].httpRequestRate, RatInt(4))

\* the request rate as the specification words it
ExpectedRequestRate(entry, isBrowserRun) ==
    LET K == IF isBrowserRun THEN "browser.http_requests" ELSE "http.requests"
        count == IF Has(entry.counters, K) THEN Get(entry.counters, K) ELSE 0
        periodMs == entry.lastCounterAt - entry.firstCounterAt
    IN  IF Has(entry.rates, "http.request_rate")
           /\ Get(entry.rates, "http.request_rate") # 0
        THEN RatInt(Get(entry.rates, "http.request_rate"))
        ELSE IF periodMs > 1000 THEN Rat(count * 1000, periodMs) ELSE RatInt(count)

\* C9: the request rate of a row is rates['http.request_rate'] when present
\* and nonzero, otherwise counters[K] / periodSeconds with K the browser or
\* the protocol requests key by ChartsSection's classification, a missing
\* counter counting as 0.
C9_RequestRate ==
    \A i \in 1..Len(Rows) :
        /\ Rows[i].httpRequestRate.d > 0
        /\ RatEq(Rows[i].httpRequestRate,
                 ExpectedRequestRate(data.intermediate[i], charts.isBrowserData))

C9_Witness ==
    \E i \in 1..Len(Rows) :
        /\ charts.isBrowserData
        /\ Has(data.intermediate[i].rates, "http.request_rate")
        /\ Get(data.intermediate[i].rates, "http.request_rate") = 0
        /\ Has(data.intermediate[i].counters, "browser.http_requests")
        /\ Get(data.intermediate[i].counters, "browser.http_requests") = 3
        /\ Has(data.intermediate[i].counters, "http.requests")
        /\ data.intermediate[i].lastCounterAt - data.intermediate[i].firstCounterAt = 2500
        /\ RatEq(Rows[i].httpRequestRate, Rat(6, 5))

RECURSIVE SetSum(_, _)
\* the sum of f over the set S
SetSum(S, f) ==
    IF S = {} THEN 0
    ELSE LET x == CHOOSE y \in S : TRUE IN f[x] + SetSum(S \ {x}, f)

\* sum(stat[percentile] * stat.count) / sum(stat.count) over the summary keys
\* of the family, 0 with no matching key or a zero total count
ExpectedWeighted(entry, family, percentile) ==
    LET matching == {j \in 1..Len(entry.summaries) :
                        StartsWith(entry.summaries[j].k, "browser.page." \o family \o ".")}
        counts == [j \in matching |-> entry.summaries[j].v.count]
        values == [j \in matching |->
                      entry.summaries[j].v[percentile] * entry.summaries[j].v.count]
    IN  IF matching = {} \/ SetSum(matching, counts) = 0
        THEN RatInt(0)
        ELSE Rat(SetSum(matching, values), SetSum(matching, counts))

FcpLcpWeighted(i) ==
    /\ RatEq(Rows[i].fcpP50, ExpectedWeighted(data.intermediate[i], "FCP", "p50"))
    /\ RatEq(Rows[i].fcpP95, ExpectedWeighted(data.intermediate[i], "FCP", "p95"))
    /\ RatEq(Rows[i].lcpP50, ExpectedWeighted(data.intermediate[i], "LCP", "p50"))
    /\ RatEq(Rows[i].lcpP95, ExpectedWeighted(data.intermediate[i], "LCP", "p95"))

\* C10 as stated: under browser classification every response-time
\* percentile of a row is the weighted average over the interval's
\* browser.page.TTFB.* summaries (0 with none or a zero total count), and
\* FCP and LCP follow the same rule.
C10_BrowserPercentilesWeighted ==
    charts.type = "charts" /\ charts.isBrowserData =>
        \A i \in 1..Len(Rows) :
            /\ RatEq(Rows[i].responseTimeP50, ExpectedWeighted(data.intermediate[i], "TTFB", "p50"))
            /\ RatEq(Rows[i].responseTimeP95, ExpectedWeighted(data.intermediate[i], "TTFB", "p95"))
            /\ RatEq(Rows[i].responseTimeP99, ExpectedWeighted(data.intermediate[i], "TTFB", "p99"))
            /\ RatEq(Rows[i].responseTimeMax, ExpectedWeighted(data.intermediate[i], "TTFB", "max"))
            /\ FcpLcpWeighted(i)

\* the weighted TTFB average when it is nonzero, else the interval's
\* http.response_time value, else 0
ExpectedWithFallback(entry, percentile) ==
    LET weighted == ExpectedWeighted(entry, "TTFB", percentile) IN
    IF weighted.n # 0 THEN weighted
    ELSE IF \E j \in 1..Len(entry.summaries) : entry.summaries[j].k = "http.response_time"
    THEN RatInt(Get(entry.summaries, "http.response_time")[percentile])
    ELSE RatInt(0)

\* C10 as amended: under browser classification every response-time
\* percentile of a row is the weighted TTFB average when that is nonzero;
\* when it is 0 (no matching key, zero total count, zero values) the row
\* takes the interval's http.response_time percentile if that summary is
\* there and 0 otherwise.  FCP and LCP are the weighted averages of their
\* families, 0 with no matching key or a zero total count.
C10_BrowserPercentilesWeightedOrHttp ==
    charts.type = "charts" /\ charts.isBrowserData =>
        \A i \in 1..Len(Rows) :
            /\ RatEq(Rows[i].responseTimeP50, ExpectedWithFallback(data.intermediate[i], "p50"))
            /\ RatEq(Rows[i].responseTimeP95, ExpectedWithFallback(data.intermediate[i], "p95"))
            /\ RatEq(Rows[i].responseTimeP99, ExpectedWithFallback(data.intermediate[i], "p99"))
            /\ RatEq(Rows[i].responseTimeMax, ExpectedWithFallback(data.intermediate[i], "max"))
            /\ FcpLcpWeighted(i)

C10_Witness ==
    \E i \in 1..Len(Rows) :
        /\ charts.isBrowserData
        /\ Has(data.intermediate[i].summaries, "browser.page.TTFB.https://host/")
        /\ Get(data.intermediate[i].summaries, "browser.page.TTFB.https://host/") = StatsOf(1, 10)
        /\ Has(data.intermediate[i].summaries, "browser.page.TTFB.https://host/chat/1")
        /\ Get(data.intermediate[i].summaries, "browser.page.TTFB.https://host/chat/1") = StatsOf(3, 40)
        /\ Has(data.intermediate[i].summaries, "http.response_time")
        /\ RatEq(Rows[i].responseTimeP50, Rat(260, 4))
        /\ RatEq(Rows[i].fcpP95, RatInt(0))

\* summaries["http.response_time"][percentile] of the entry, 0 when absent
ExpectedHttp(entry, percentile) ==
    IF \E j \in 1..Len(entry.summaries) : entry.summaries[j].k = "http.response_time"
    THEN RatInt(Get(entry.summaries, "http.response_time")[percentile])
    ELSE RatInt(0)

\* C11 as stated: under protocol classification every response-time
\* percentile of a row is the interval's http.response_time summary value
\* for that percentile, 0 when that summary is absent, whatever other
\* summary keys the interval holds.
C11_ProtocolReadsHttpSummary ==
    charts.type = "charts" /\ ~charts.isBrowserData =>
        \A i \in 1..Len(Rows) :
            /\ RatEq(Rows[i].responseTimeP50, ExpectedHttp(data.intermediate[i], "p50"))
            /\ RatEq(Rows[i].responseTimeP95, ExpectedHttp(data.intermediate[i], "p95"))
            /\ RatEq(Rows[i].responseTimeP99, ExpectedHttp(data.intermediate[i], "p99"))
            /\ RatEq(Rows[i].responseTimeMax, ExpectedHttp(data.intermediate[i], "max"))

\* C11 as amended: under protocol classification every response-time
\* percentile of a row is the interval's http.response_time summary value
\* (0 when absent) provided the weighted average of the interval's
\* browser.page.TTFB.* summaries is 0; when that average is nonzero the
\* row carries it instead.
C11_ProtocolHttpUnlessTtfb ==
    charts.type = "charts" /\ ~charts.isBrowserData =>
        \A i \in 1..Len(Rows) : \A p \in {"p50", "p95", "p99", "max"} :
            LET shown == CASE p = "p50" -> Rows[i].responseTimeP50
                           [] p = "p95" -> Rows[i].responseTimeP95
                           [] p = "p99" -> Rows[i].responseTimeP99
                           [] OTHER -> Rows[i].responseTimeMax
                ttfb == ExpectedWeighted(data.intermediate[i], "TTFB", p)
            IN  IF ttfb.n = 0
                THEN RatEq(shown, ExpectedHttp(data.intermediate[i], p))
                ELSE RatEq(shown, ttfb)

C11_Witness ==
    \E i \in 1..Len(Rows) :
        /\ ~charts.isBrowserData
        /\ Has(data.intermediate[i].summaries, "http.response_time")
        /\ Has(data.intermediate[i].summaries, "browser.page.TTFB.https://host/")
        /\ Get(data.intermediate[i].summaries, "browser.page.TTFB.https://host/") = StatsOf(3, 40)
        /\ ~Has(data.intermediate[i].summaries, "browser.page.TTFB.https://host/chat/1")
        /\ RatEq(Rows[i].responseTimeP50, RatInt(80))
        /\ RatEq(Rows[i].responseTimeMax, RatInt(360))

\* the positions of the entry's summaries whose key starts with
\* browser.page.<family>.
MatchingSummaries(entry, family) ==
    {j \in 1..Len(entry.summaries) :
        StartsWith(entry.summaries[j].k, "browser.page." \o family \o ".")}

\* the row fields that are findBrowserMetric's return value
MetricFields(i) ==
    {<<"FCP", "p50", Rows[i].fcpP50>>, <<"FCP", "p95", Rows[i].fcpP95>>,
     <<"LCP", "p50", Rows[i].lcpP50>>, <<"LCP", "p95", Rows[i].lcpP95>>}

\* C12 as stated: findBrowserMetric returns 0 when no summary key of the
\* interval matches the family, and with exactly one matching key it
\* returns that key's raw percentile value, whatever SummaryStats the key
\* holds.
C12_SingleKeyRawValue ==
    \A i \in 1..Len(Rows) : \A f \in MetricFields(i) :
        LET matching == MatchingSummaries(data.intermediate[i], f[1]) IN
        /\ matching = {} => RatEq(f[3], RatInt(0))
        /\ Cardinality(matching) = 1 =>
              \A j \in matching :
                  RatEq(f[3], RatInt(data.intermediate[i].summaries[j].v[f[2]]))

\* C12 as amended: findBrowserMetric returns 0 when no summary key of the
\* interval matches the family; with exactly one matching key it returns
\* that key's raw percentile value when the key's count is positive and 0
\* when the key's count is 0.
C12_SingleKeyRawValueIfCounted ==
    \A i \in 1..Len(Rows) : \A f \in MetricFields(i) :
        LET matching == MatchingSummaries(data.intermediate[i], f[1]) IN
        /\ matching = {} => RatEq(f[3], RatInt(0))
        /\ Cardinality(matching) = 1 =>
              \A j \in matching :
                  LET stats == data.intermediate[i].summaries[j].v IN
                  IF stats.count > 0 THEN RatEq(f[3], RatInt(stats[f[2]]))
                  ELSE RatEq(f[3], RatInt(0))

C12_Witness ==
    \E i \in 1..Len(Rows) :
        /\ MatchingSummaries(data.intermediate[i], "FCP") = {}
        /\ RatEq(Rows[i].fcpP95, RatInt(0))
        /\ Cardinality(MatchingSummaries(data.intermediate[i], "LCP")) = 1
        /\ Get(data.intermediate[i].summaries, "browser.page.LCP.https://host/") = StatsOf(2, 30)
        /\ RatEq(Rows[i].lcpP50, RatInt(60))
        /\ RatEq(Rows[i].lcpP95, RatInt(180))

(***************************************************************************)
(* Claims about the breakdowns.                                            *)
(***************************************************************************)
Reduced == charts.type = "charts" /\ charts.reduced

Counters == data.aggregate.counters

\* key without its first Len(prefix) characters
Minus(key, prefix) == SubSeq(key, Len(prefix) + 1, Len(key))

\* the positions of the aggregate counters whose key starts with prefix
WithPrefix(prefix) == {j \in 1..Len(Counters) : StartsWith(Counters[j].k, prefix)}

\* C13: the URL breakdown holds exactly one entry for each aggregate
\* counter key that starts with http.requests. and is not the key
\* http.requests.total itself (protocol classification), or that starts
\* with browser.page.codes. (browser classification); the entry is labelled
\* with the key minus the prefix and carries the counter's value.
C13_UrlBreakdownEntries ==
    panels.type = "panels" =>
        LET prefix == IF panels.isBrowserData THEN "browser.page.codes." ELSE "http.requests."
            keys == IF panels.isBrowserData THEN WithPrefix(prefix)
                    ELSE {j \in WithPrefix(prefix) : Counters[j].k # "http.requests.total"}
            out == panels.urlRequestsData
        IN  /\ Len(out) = Cardinality(keys)
            /\ \A j \in keys : \E i \in 1..Len(out) :
                  /\ out[i].url = Minus(Counters[j].k, prefix)
                  /\ out[i].count = Counters[j].v

\* C14: the status-code breakdown holds exactly one entry for each
\* aggregate counter key prefixed http.codes. or browser.page.codes.,
\* labelled with the key minus its own prefix and carrying the counter's
\* value, in the counters' order, and no entry for any other key.
C14_StatusCodeEntries ==
    Reduced =>
        LET IsCode(m) == StartsWith(m.k, "http.codes.") \/ StartsWith(m.k, "browser.page.codes.")
            codes == SelectSeq(Counters, IsCode)
            out == charts.httpCodesData
        IN  /\ Len(out) = Len(codes)
            /\ \A j \in 1..Len(codes) :
                  /\ out[j].code = IF StartsWith(codes[j].k, "http.codes.")
                                   THEN Minus(codes[j].k, "http.codes.")
                                   ELSE Minus(codes[j].k, "browser.page.codes.")
                  /\ out[j].count = codes[j].v

FlowPrefix == "vusers.created_by_name."

\* the position among the aggregate counters of the flow with this label
FlowPosition(flow) ==
    CHOOSE j \in WithPrefix(FlowPrefix) : Counters[j].k = FlowPrefix \o flow

\* C15: the named-flow breakdown has min(5, n) entries for n flow counters,
\* each a flow of the log with its count, in non-increasing count order; no
\* omitted flow has a greater count than an included one; flows of equal
\* count keep the counters' order, among the entries and against the
\* omitted flows.
C15_TopFiveFlows ==
    Reduced =>
        LET flows == WithPrefix(FlowPrefix)
            out == charts.userFlowsData
            included == {FlowPosition(out[i].flow) : i \in 1..Len(out)}
        IN  /\ Len(out) = IF Cardinality(flows) < 5 THEN Cardinality(flows) ELSE 5
            /\ \A i \in 1..Len(out) :
                  /\ \E j \in flows : Counters[j].k = FlowPrefix \o out[i].flow
                  /\ out[i].count = Counters[FlowPosition(out[i].flow)].v
            /\ Cardinality(included) = Len(out)
            /\ \A i \in 1..Len(out) - 1 :
                  /\ out[i].count >= out[i + 1].count
                  /\ out[i].count = out[i + 1].count =>
                        FlowPosition(out[i].flow) < FlowPosition(out[i + 1].flow)
            /\ \A j \in flows \ included : \A i \in 1..Len(out) :
                  /\ Counters[j].v <= out[i].count
                  /\ Counters[j].v = out[i].count => FlowPosition(out[i].flow) < j

C15_Witness ==
    /\ Reduced
    /\ Cardinality(WithPrefix(FlowPrefix)) = 6
    /\ charts.userFlowsData =
          <<[flow |-> "b", count |-> 2], [flow |-> "d", count |-> 2],
            [flow |-> "f", count |-> 2], [flow |-> "a", count |-> 1],
            [flow |-> "c", count |-> 1]>>

\* the summaries of every interval as <<interval, position>> pairs
SummaryPositions ==
    UNION {{<<i, j>> : j \in 1..Len(data.intermediate[i].summaries)} :
              i \in 1..Len(data.intermediate)}

SummaryOn(pos) == data.intermediate[pos[1]].summaries[pos[2]]

\* a page metric key whose URL parses to a path that begins with /chat/
IsChatKey(key) ==
    /\ IsPageMetricKey(key)
    /\ HttpsMatch(key) # ""
    /\ ParseUrl(HttpsMatch(key)).ok
    /\ StartsWith(ParseUrl(HttpsMatch(key)).pathname, "/chat/")

\* C16: in the endpoint summary all summary keys whose https URL has a path
\* beginning with /chat/ contribute to one entry labelled /chat/[id]; its
\* count is the sum of their stats.count and its avgResponseTime is
\* sum(stats.mean * stats.count) / sum(stats.count) over all of them.
C16_ChatWeightedMean ==
    Reduced =>
        LET chat == {pos \in SummaryPositions : IsChatKey(SummaryOn(pos).k)}
            counts == [pos \in chat |-> SummaryOn(pos).v.count]
            times == [pos \in chat |-> SummaryOn(pos).v.mean * SummaryOn(pos).v.count]
            out == charts.endpointSummaryData
            items == {i \in 1..Len(out) : out[i].endpoint = "/chat/[id]"}
        IN  SetSum(chat, counts) > 0 =>
                /\ Cardinality(items) = 1
                /\ \A i \in items :
                      /\ out[i].count = SetSum(chat, counts)
                      /\ RatEq(out[i].avgResponseTime,
                               Rat(SetSum(chat, times), SetSum(chat, counts)))

\* a page metric key that embeds a URL which new URL rejects
UrlFailsToParse(key) ==
    /\ IsPageMetricKey(key)
    /\ HttpsMatch(key) # ""
    /\ ~ParseUrl(HttpsMatch(key)).ok

\* the log without the summary keys whose URL fails to parse
WithoutUnparsable(log) ==
    LET Parsable(m) == ~UrlFailsToParse(m.k) IN
    [log EXCEPT !.intermediate =
        [i \in 1..Len(log.intermediate) |->
            [log.intermediate[i] EXCEPT !.summaries = SelectSeq(@, Parsable)]]]

\* C17: a summary key whose embedded URL fails to parse raises no fault,
\* and the endpoint summary and the per-interval endpoint counts and means
\* are those of the log without that key.
C17_UnparsableUrlSkipped ==
    Reduced =>
        /\ view = "dashboard"
        /\ charts.endpointSummaryData = EndpointSummaryData(WithoutUnparsable(data))
        /\ charts.endpointTimeSeriesData = EndpointTimeSeriesData(WithoutUnparsable(data))

C17_Witness ==
    /\ Reduced
    /\ \E pos \in SummaryPositions :
          /\ SummaryOn(pos).k = "browser.page.FCP.https://ho<st/chat/3"
          /\ UrlFailsToParse(SummaryOn(pos).k)
    /\ \E pos \in SummaryPositions : IsChatKey(SummaryOn(pos).k)
    /\ \E i \in 1..Len(charts.endpointSummaryData) :
          /\ charts.endpointSummaryData[i].endpoint = "/chat/[id]"
          /\ charts.endpointSummaryData[i].count = 2
    /\ charts.endpointTimeSeriesData[1].chatCount = 2
    /\ charts.endpointTimeSeriesData[1].rootCount = 4

SixBuckets(stats) ==
    <<[range |-> "P50", count |-> stats.p50], [range |-> "P75", count |-> stats.p75],
      [range |-> "P90", count |-> stats.p90], [range |-> "P95", count |-> stats.p95],
      [range |-> "P99", count |-> stats.p99], [range |-> "Max", count |-> stats.max]>>

\* one bucket per member of histograms["http.response_time"], labelled with
\* the member's key and carrying its value
ProtocolBuckets ==
    LET histogram == Get(data.aggregate.histograms, "http.response_time")
        out == panels.histogramData
    IN  /\ Len(out) = Len(StatsKeys)
        /\ \A j \in 1..Len(StatsKeys) :
              /\ out[j].range = StatsKeys[j]
              /\ out[j].count = histogram[StatsKeys[j]]

NoHistogramKey ==
    IF PanelsIsBrowserData(data)
    THEN \A j \in 1..Len(data.aggregate.histograms) :
            ~StartsWith(data.aggregate.histograms[j].k, "browser.page.FCP.")
    ELSE \A j \in 1..Len(data.aggregate.histograms) :
            data.aggregate.histograms[j].k # "http.response_time"

\* the log holds no counter key of the URL breakdown of its classification
NoUrlKey ==
    IF PanelsIsBrowserData(data) THEN WithPrefix("browser.page.codes.") = {}
    ELSE \A j \in WithPrefix("http.requests.") : Counters[j].k = "http.requests.total"

\* C19: a breakdown whose keys the log does not hold is the empty sequence
\* (URL breakdown, status-code breakdown, named-flow breakdown, endpoint
\* summary, histogram buckets), and computing it raises no fault, under
\* either classification.
C19_EmptyBreakdownsNoFault ==
    /\ Reduced =>
          /\ WithPrefix("http.codes.") \cup WithPrefix("browser.page.codes.") = {}
                => charts.httpCodesData = <<>>
          /\ WithPrefix(FlowPrefix) = {} => charts.userFlowsData = <<>>
          /\ (\A pos \in SummaryPositions : ~IsPageMetricKey(SummaryOn(pos).k))
                => charts.endpointSummaryData = <<>>
    /\ panels.type = "panels" =>
          /\ NoUrlKey => panels.urlRequestsData = <<>>
          /\ NoHistogramKey => panels.histogramData = <<>>
    /\ NoHistogramKey => view # "crashed"

\* the counter the request rate falls back on
RequestsKey == IF charts.isBrowserData THEN "browser.http_requests" ELSE "http.requests"

\* C20: every interval record gets its row, and a field of the row is 0
\* when the keys it is read from are missing from the record's counters,
\* rates or summaries: the request rate, the VU counters, the response-time
\* percentiles, FCP and LCP, and the session-length mean, p95 and p99.
C20_MissingKeysGiveZero ==
    /\ Reduced => Len(Rows) = Len(data.intermediate) /\ view = "dashboard"
    /\ \A i \in 1..Len(Rows) :
          LET entry == data.intermediate[i]
              Missing(obj, key) == \A j \in 1..Len(obj) : obj[j].k # key
          IN  /\ Missing(entry.rates, "http.request_rate") /\ Missing(entry.counters, RequestsKey)
                    => RatEq(Rows[i].httpRequestRate, RatInt(0))
              /\ Missing(entry.counters, "vusers.created") => Rows[i].vusCreated = 0
              /\ Missing(entry.counters, "vusers.active") => Rows[i].vusActive = 0
              /\ Missing(entry.counters, "vusers.completed") => Rows[i].vusCompleted = 0
              /\ Missing(entry.counters, "vusers.failed") => Rows[i].vusFailed = 0
              /\ MatchingSummaries(entry, "TTFB") = {}
                 /\ Missing(entry.summaries, "http.response_time")
                    => /\ RatEq(Rows[i].responseTimeP50, RatInt(0))
                       /\ RatEq(Rows[i].responseTimeP95, RatInt(0))
                       /\ RatEq(Rows[i].responseTimeP99, RatInt(0))
                       /\ RatEq(Rows[i].responseTimeMax, RatInt(0))
              /\ MatchingSummaries(entry, "FCP") = {}
                    => RatEq(Rows[i].fcpP50, RatInt(0)) /\ RatEq(Rows[i].fcpP95, RatInt(0))
              /\ MatchingSummaries(entry, "LCP") = {}
                    => RatEq(Rows[i].lcpP50, RatInt(0)) /\ RatEq(Rows[i].lcpP95, RatInt(0))
              /\ Missing(entry.summaries, "vusers.session_length")
                    => /\ Rows[i].sessionLengthMean = 0
                       /\ Rows[i].sessionLengthP95 = 0
                       /\ Rows[i].sessionLengthP99 = 0

C20_Witness ==
    /\ Reduced
    /\ \E i, j \in 1..Len(Rows) :
          /\ data.intermediate[i].counters = <<>>
          /\ data.intermediate[i].rates = <<>>
          /\ data.intermediate[i].summaries = <<>>
          /\ RatEq(Rows[i].httpRequestRate, RatInt(0))
          /\ Rows[i].vusCreated = 0
          /\ RatEq(Rows[i].responseTimeP95, RatInt(0))
          /\ Rows[i].sessionLengthP99 = 0
          /\ Rows[j].vusCreated > 0

(***************************************************************************)
(* Summaries of count 0.                                                   *)
(***************************************************************************)
RECURSIVE CountedSummaries(_)
\* the members of a summaries object whose count is not 0
CountedSummaries(summaries) ==
    IF summaries = <<>> THEN <<>>
    ELSE IF Head(summaries).v.count # 0
         THEN <<Head(summaries)>> \o CountedSummaries(Tail(summaries))
         ELSE CountedSummaries(Tail(summaries))

\* the held log with the count-0 summaries of every record left out
CountedLog ==
    [data EXCEPT
        !.aggregate.summaries = CountedSummaries(@),
        !.intermediate = [i \in 1..Len(@) |-> [@[i] EXCEPT !.summaries = CountedSummaries(@)]]]

ResponseTimeFields ==
    {"responseTimeP50", "responseTimeP95", "responseTimeP99", "responseTimeMax",
     "fcpP50", "fcpP95", "lcpP50", "lcpP95"}

\* C21: a summary whose count is 0 is "no data": the summary card (mean, p95,
\* p99, Apdex rating, verdict) and the response-time fields of every row are
\* what they would be if the count-0 summaries were not in the log at all.
C21_UncountedIsNoData ==
    /\ card.type = "card" => card = KeyMetricsSummary(CountedLog)
    /\ \A i \in 1..Len(Rows) :
          \A field \in ResponseTimeFields :
             RatEq(Rows[i][field],
                   TimeSeriesRow(CountedLog, charts.isBrowserData, i)[field])

(***************************************************************************)
(* The summary card without a response-time summary.                       *)
(***************************************************************************)
AggregateSummaries == data.aggregate.summaries

HasTtfbSummary ==
    \E j \in 1..Len(AggregateSummaries) :
       StartsWith(AggregateSummaries[j].k, "browser.page.TTFB.")

HasHttpSummary ==
    \E j \in 1..Len(AggregateSummaries) : AggregateSummaries[j].k = "http.response_time"

\* C22: when the aggregate record holds no response-time summary for the
\* log's classification (no http.response_time summary under protocol, no
\* browser.page.TTFB.* summary under browser), the card's p95 and p99 are 0,
\* the rating is 'satisfied' and the verdict is PASS.
C22_NoSummaryScoresAsZero ==
    (/\ card.type = "card"
     /\ IF card.isBrowserData THEN ~HasTtfbSummary ELSE ~HasHttpSummary)
    => (/\ card.p95 = 0
        /\ card.p99 = 0
        /\ card.apdexRating = "satisfied"
        /\ card.isPassFail)

\* a browser log whose aggregate record holds an http.response_time summary
\* with a p95 of 420 and no TTFB summary
C22_Witness ==
    /\ card.type = "card"
    /\ card.isBrowserData
    /\ ~HasTtfbSummary
    /\ HasHttpSummary
    /\ Get(AggregateSummaries, "http.response_time").p95 = 420
    /\ card.p95 = 0
    /\ card.p99 = 0
    /\ card.apdexRating = "satisfied"
    /\ card.isPassFail

(***************************************************************************)
(* The classification at each call site.                                   *)
(***************************************************************************)
\* the keys of obj whose first eight characters are "browser."
BrowserKeysOf(obj) ==
    {obj[j].k : j \in {n \in 1..Len(obj) :
                          /\ Len(obj[n].k) >= 8
                          /\ SubSeq(obj[n].k, 1, 8) = "browser."}}

IntervalBrowserKeys ==
    UNION {BrowserKeysOf(data.intermediate[i].counters) : i \in 1..Len(data.intermediate)}

\* C23: at each call site the classification is browser exactly when a
\* counter key in that site's scope starts with 'browser.': the aggregate
\* record's counters for the summary card and the panels, the counters of the
\* interval records for the charts; no key of rates, summaries or histograms
\* enters into it.
C23_ClassifiedByCountersInScope ==
    /\ card.type = "card"
       => (card.isBrowserData <=> BrowserKeysOf(data.aggregate.counters) # {})
    /\ charts.type = "charts"
       => (charts.isBrowserData <=> IntervalBrowserKeys # {})
    /\ panels.type = "panels"
       => (panels.isBrowserData <=> BrowserKeysOf(data.aggregate.counters) # {})

\* a log with browser.* keys in the aggregate record's summaries and
\* histograms and in no counters, classified as protocol at all three sites
C23_Witness ==
    /\ panels.type = "panels"
    /\ BrowserKeysOf(data.aggregate.summaries) # {}
    /\ BrowserKeysOf(data.aggregate.histograms) # {}
    /\ BrowserKeysOf(data.aggregate.counters) = {}
    /\ IntervalBrowserKeys = {}
    /\ ~card.isBrowserData
    /\ ~charts.isBrowserData
    /\ ~panels.isBrowserData

(***************************************************************************)
(* Concurrent users from cumulative totals.                                *)
(***************************************************************************)
\* the value of counter key in the interval record at position r, 0 when absent
CounterOf(r, key) ==
    LET counters == data.intermediate[r].counters
        at == {j \in 1..Len(counters) : counters[j].k = key}
    IN  IF at = {} THEN 0 ELSE counters[CHOOSE j \in at : TRUE].v

\* the sum of counter key over the interval records at positions 1..i
TotalUpTo(i, key) == SetSum(1..i, [r \in 1..i |-> CounterOf(r, key)])

Balance(i) ==
    TotalUpTo(i, "vusers.created") - TotalUpTo(i, "vusers.completed")
        - TotalUpTo(i, "vusers.failed")

\* C24: at every row concurrentUsers is max(0, C - D - F) with C, D, F the
\* sums of created, completed and failed over the rows up to and including
\* that row; the clamp is applied to the unclamped totals of each row, and C,
\* D and F never decrease from one row to the next.
C24_ConcurrentFromCumulativeTotals ==
    \A i \in 1..Len(Rows) :
       /\ Rows[i].vusCreatedCumulative = TotalUpTo(i, "vusers.created")
       /\ Rows[i].vusCompletedCumulative = TotalUpTo(i, "vusers.completed")
       /\ Rows[i].vusFailedCumulative = TotalUpTo(i, "vusers.failed")
       /\ Rows[i].vusConcurrent = (IF Balance(i) > 0 THEN Balance(i) ELSE 0)
       /\ i > 1 => /\ Rows[i].vusCreatedCumulative >= Rows[i - 1].vusCreatedCumulative
                   /\ Rows[i].vusCompletedCumulative >= Rows[i - 1].vusCompletedCumulative
                   /\ Rows[i].vusFailedCumulative >= Rows[i - 1].vusFailedCumulative

\* a first row with a balance of -3 (clamped to 0) and a second row that only
\* creates 2 users: the second row shows 0, the earlier deficit still counting
C24_Witness ==
    /\ Len(Rows) = 2
    /\ Balance(1) = 0 - 3
    /\ Rows[1].vusConcurrent = 0
    /\ CounterOf(2, "vusers.created") = 2
    /\ CounterOf(2, "vusers.completed") = 0
    /\ CounterOf(2, "vusers.failed") = 0
    /\ Balance(2) = 0 - 1
    /\ Rows[2].vusConcurrent = 0

(***************************************************************************)
(* The summary card of a browser log with several TTFB summaries.          *)
(***************************************************************************)
\* the positions of the TTFB summaries of the aggregate record
TtfbPositions ==
    {j \in 1..Len(AggregateSummaries) :
        StartsWith(AggregateSummaries[j].k, "browser.page.TTFB.")}

FirstTtfb == AggregateSummaries[CHOOSE j \in TtfbPositions : \A n \in TtfbPositions : j <= n].v

\* C26: under browser classification the card's mean, p95 and p99 are those
\* of the TTFB summary of the aggregate record when it holds exactly one, and
\* an aggregate over all of them when it holds several; the aggregate is
\* taken to be the count-weighted mean, the one the charts use for the same
\* family of summaries.
C26_CardAggregatesTtfb ==
    (card.type = "card" /\ card.isBrowserData /\ TtfbPositions # {})
    => IF Cardinality(TtfbPositions) = 1
       THEN /\ card.p95 = FirstTtfb.p95
            /\ card.p99 = FirstTtfb.p99
            /\ card.mean = FirstTtfb.mean
       ELSE /\ RatEq(RatInt(card.p95), ExpectedWeighted(data.aggregate, "TTFB", "p95"))
            /\ RatEq(RatInt(card.p99), ExpectedWeighted(data.aggregate, "TTFB", "p99"))
            /\ RatEq(RatInt(card.mean), ExpectedWeighted(data.aggregate, "TTFB", "mean"))

(***************************************************************************)
(* Verdict and rating together.                                            *)
(***************************************************************************)
\* C27: a card that shows PASS shows the rating 'satisfied'; a log rated
\* 'tolerated' or 'frustrated' is never shown as PASS, under either
\* classification and for every p95 and p99.
C27_PassImpliesSatisfied ==
    card.type = "card"
    => /\ card.isPassFail => card.apdexRating = "satisfied"
       /\ card.apdexRating \in {"tolerated", "frustrated"} => ~card.isPassFail

\* a browser log just under both thresholds
C27_Witness ==
    /\ card.type = "card"
    /\ card.isBrowserData
    /\ card.p95 = 99
    /\ card.p99 = 199
    /\ card.isPassFail
    /\ card.apdexRating = "satisfied"

(***************************************************************************)
(* The running mean of the endpoint time series.                           *)
(***************************************************************************)
\* the positions of the summaries of interval i that count for endpoint
ContributingTo(i, endpoint) ==
    {j \in 1..Len(data.intermediate[i].summaries) :
        /\ EndpointOfKey(data.intermediate[i].summaries[j].k).ok
        /\ EndpointOfKey(data.intermediate[i].summaries[j].k).endpoint = endpoint}

\* sum(mean * count) / sum(count) over those summaries, 0 with a zero count
IntervalMean(i, endpoint) ==
    LET keys == ContributingTo(i, endpoint)
        summaries == data.intermediate[i].summaries
        counts == [j \in keys |-> summaries[j].v.count]
        times == [j \in keys |-> summaries[j].v.mean * summaries[j].v.count]
    IN  IF SetSum(keys, counts) = 0 THEN RatInt(0)
        ELSE Rat(SetSum(keys, times), SetSum(keys, counts))

\* avgResponseTime of the endpoint in the endpoint summary of interval i alone
SummaryMeanAlone(i, endpoint) ==
    LET acc == EndpointSummary(<<data.intermediate[i]>>)
        at == {j \in 1..Len(acc) : acc[j].endpoint = endpoint}
    IN  IF at = {} THEN RatInt(0) ELSE acc[CHOOSE j \in at : TRUE].avgResponseTime

EndpointRows == IF Reduced THEN charts.endpointTimeSeriesData ELSE <<>>

\* C29: in every row of the endpoint time series the response time of the
\* root and of the chat endpoint is sum(mean * count) / sum(count) over the
\* summaries of that interval which count for the endpoint, and is the
\* average the endpoint summary's totals give for that interval alone,
\* whatever the order and the content of the keys.
C29_RunningMeanIsWeightedMean ==
    \A i \in 1..Len(EndpointRows) :
       /\ RatEq(EndpointRows[i].rootResponseTime, IntervalMean(i, "/"))
       /\ RatEq(EndpointRows[i].chatResponseTime, IntervalMean(i, "/chat/[id]"))
       /\ RatEq(EndpointRows[i].rootResponseTime, SummaryMeanAlone(i, "/"))
       /\ RatEq(EndpointRows[i].chatResponseTime, SummaryMeanAlone(i, "/chat/[id]"))

(***************************************************************************)
(* Labels of the status-code breakdown.                                    *)
(***************************************************************************)
StatusCodes == IF Reduced THEN charts.httpCodesData ELSE <<>>

\* C30: no two entries of the status-code breakdown carry the same label,
\* whatever keys the aggregate counters hold.
C30_StatusCodeLabelsDistinct ==
    \A i, j \in 1..Len(StatusCodes) :
       i # j => StatusCodes[i].code # StatusCodes[j].code

====
